---- MODULE Spec2Model ----
(***************************************************************************)
(* Model of src/lang_c/libc/src/ctype.c: the ASCII character               *)
(* classification and case conversion functions.                           *)
(*                                                                         *)
(* A C int is a 32-bit two's-complement value, kept here as an integer in  *)
(* -2^31 .. 2^31-1.  An unsigned is kept as two 16-bit limbs <<hi, lo>>,    *)
(* so that the cast (unsigned)c, the wrapping subtraction and the bitwise  *)
(* operators are computed at their full width.                             *)
(***************************************************************************)
EXTENDS Integers, FiniteSets, Sequences, TLC

VARIABLES c, fn, ret, orig, via

vars == <<c, fn, ret, orig, via>>

(***************************************************************************)
(* Bounds of the input domain.                                             *)
(***************************************************************************)
\* Inputs -Span .. Span are enumerated one by one.
Span == 300
\* Low parts 0 .. MaxBase are combined with every pattern of high bits.
MaxBase == 127

(***************************************************************************)
(* 32-bit arithmetic.                                                      *)
(***************************************************************************)
Limb == 2^16

INT_MIN == -2147483647 - 1

INT_MAX == 2147483647

\* Bitwise operators on one 16-bit limb.
RECURSIVE BitAnd(_, _)
BitAnd(a, b) ==
    IF a = 0 \/ b = 0 THEN 0
    ELSE (a % 2) * (b % 2) + 2 * BitAnd(a \div 2, b \div 2)

RECURSIVE BitOr(_, _)
BitOr(a, b) ==
    IF a = 0 THEN b
    ELSE IF b = 0 THEN a
    ELSE (IF a % 2 = 1 \/ b % 2 = 1 THEN 1 ELSE 0)
         + 2 * BitOr(a \div 2, b \div 2)

\* (unsigned)c : the value of c modulo 2^32, as limbs.
ToUnsigned(x) == <<(x \div Limb) % Limb, x % Limb>>

\* The int with the same 32 bits as the unsigned u.
ToInt(u) ==
    IF u[1] >= Limb \div 2 THEN (u[1] - Limb) * Limb + u[2]
    ELSE u[1] * Limb + u[2]

\* The unsigned value of a small non-negative constant of the source.
U(k) == <<0, k>>

\* u - v modulo 2^32.
USub(u, v) ==
    LET borrow == IF u[2] < v[2] THEN 1 ELSE 0
    IN  <<(u[1] - v[1] - borrow) % Limb, (u[2] - v[2]) % Limb>>

\* u < v on unsigned values.
ULess(u, v) == u[1] < v[1] \/ (u[1] = v[1] /\ u[2] < v[2])

\* u | v on unsigned values.
UOr(u, v) == <<BitOr(u[1], v[1]), BitOr(u[2], v[2])>>

\* u & v on unsigned values.
UAnd(u, v) == <<BitAnd(u[1], v[1]), BitAnd(u[2], v[2])>>

\* ~k for a small non-negative constant k.
UNot(k) == <<Limb - 1, Limb - 1 - k>>

\* x | k and x & k on ints, k a small non-negative constant.
IntOr(x, k) == ToInt(UOr(ToUnsigned(x), U(k)))

IntAnd(x, k) == ToInt(UAnd(ToUnsigned(x), U(k)))

\* x & ~k on ints.
IntAndNot(x, k) == ToInt(UAnd(ToUnsigned(x), UNot(k)))

\* The int value of a C comparison or logical operator.
Truth(b) == IF b THEN 1 ELSE 0

(***************************************************************************)
(* The functions of ctype.c.                                               *)
(***************************************************************************)
\* isascii with the upper bound only: the sign bit is not looked at.
isascii_upper_only(x) == Truth(x <= 127)

isascii(x) == Truth(IntAndNot(x, 127) = 0)

isblank(x) == Truth(x = 32 \/ x = 9)

\* isalpha without the case fold.
isalpha_nofold(x) == Truth(ULess(USub(ToUnsigned(x), U(97)), U(26)))

isalpha(x) == Truth(ULess(USub(UOr(ToUnsigned(x), U(32)), U(97)), U(26)))

isdigit(x) == Truth(ULess(USub(ToUnsigned(x), U(48)), U(10)))

isalnum(x) == Truth(isalpha(x) # 0 \/ isdigit(x) # 0)

isspace(x) == Truth(x = 32 \/ ULess(USub(ToUnsigned(x), U(9)), U(5)))

isupper(x) == Truth(ULess(USub(ToUnsigned(x), U(65)), U(26)))

\* islower with a range one too wide.
islower_wide(x) == Truth(ULess(USub(ToUnsigned(x), U(97)), U(27)))

islower(x) == Truth(ULess(USub(ToUnsigned(x), U(97)), U(26)))

\* tolower without the isupper test.
tolower_unguarded(x) == IntOr(x, 32)

tolower(x) == IF isupper(x) # 0 THEN IntOr(x, 32) ELSE x

\* toupper testing the wrong case.
toupper_wrongguard(x) == IF isupper(x) # 0 THEN IntAnd(x, 95) ELSE x

toupper(x) == IF islower(x) # 0 THEN IntAnd(x, 95) ELSE x

\* toascii masking to a byte instead of 7 bits.
toascii_byte(x) == IntAnd(x, 255)

toascii(x) == IntAnd(x, 127)

\* isprint with the lower bound only.
isprint_open(x) == Truth(~ULess(ToUnsigned(x), U(32)))

isprint(x) == Truth(ULess(USub(ToUnsigned(x), U(32)), U(95)))

isgraph(x) == Truth(ULess(USub(ToUnsigned(x), U(33)), U(94)))

\* ispunct excluding letters only.
ispunct_alpha(x) == Truth(isgraph(x) # 0 /\ ~(isalpha(x) # 0))

ispunct(x) == Truth(isgraph(x) # 0 /\ ~(isalnum(x) # 0))

\* iscntrl comparing c as a signed int.
iscntrl_signed(x) == Truth(x < 32 \/ x = 127)

iscntrl(x) == Truth(ULess(ToUnsigned(x), U(32)) \/ x = 127)

\* isxdigit with a letter range one too wide.
isxdigit_wide(x) ==
    Truth(\/ isdigit(x) # 0
          \/ ULess(USub(UOr(ToUnsigned(x), U(32)), U(97)), U(7)))

isxdigit(x) ==
    Truth(\/ isdigit(x) # 0
          \/ ULess(USub(UOr(ToUnsigned(x), U(32)), U(97)), U(6)))

(***************************************************************************)
(* The state machine: a caller holds an int c, calls one function of the   *)
(* file on it and may pass the result of a conversion to the next call.    *)
(***************************************************************************)
Near == (-Span) .. Span

Bases == 0 .. MaxBase

Shifts == 7 .. 30

\* Low parts with one high bit set, with all bits from a high bit up set,
\* and the two ends of the int range.
Far ==
    UNION { {b + 2^k, b - 2^k} : b \in Bases, k \in Shifts }
    \cup { INT_MIN + b : b \in Bases }
    \cup { INT_MAX - b : b \in Bases }

Inputs == Near \cup Far

Predicates ==
    {"isascii", "isblank", "isalpha", "isdigit", "isalnum", "isspace",
     "isupper", "islower", "isprint", "isgraph", "ispunct", "iscntrl",
     "isxdigit"}

Conversions == {"tolower", "toupper", "toascii"}

Init ==
    /\ c \in Inputs
    /\ orig = c
    /\ via = "none"
    /\ fn = "none"
    /\ ret = 0

Call(name, value) ==
    /\ fn' = name
    /\ ret' = value
    /\ UNCHANGED <<c, orig, via>>

CallIsascii == Call("isascii", isascii(c))

CallIsblank == Call("isblank", isblank(c))

CallIsalpha == Call("isalpha", isalpha(c))

CallIsdigit == Call("isdigit", isdigit(c))

CallIsalnum == Call("isalnum", isalnum(c))

CallIsspace == Call("isspace", isspace(c))

CallIsupper == Call("isupper", isupper(c))

CallIslower == Call("islower", islower(c))

CallTolower == Call("tolower", tolower(c))

CallToupper == Call("toupper", toupper(c))

CallToascii == Call("toascii", toascii(c))

CallIsprint == Call("isprint", isprint(c))

CallIsgraph == Call("isgraph", isgraph(c))

CallIspunct == Call("ispunct", ispunct(c))

CallIscntrl == Call("iscntrl", iscntrl(c))

CallIsxdigit == Call("isxdigit", isxdigit(c))

\* The result of a conversion becomes the argument of the next call.
Feed ==
    /\ fn \in Conversions
    /\ orig' = c
    /\ c' = ret
    /\ via' = fn
    /\ fn' = "none"
    /\ ret' = 0

Next ==
    \/ CallIsascii
    \/ CallIsblank
    \/ CallIsalpha
    \/ CallIsdigit
    \/ CallIsalnum
    \/ CallIsspace
    \/ CallIsupper
    \/ CallIslower
    \/ CallTolower
    \/ CallToupper
    \/ CallToascii
    \/ CallIsprint
    \/ CallIsgraph
    \/ CallIspunct
    \/ CallIscntrl
    \/ CallIsxdigit
    \/ Feed

Spec == Init /\ [][Next]_vars

TypeOK ==
    /\ c \in INT_MIN .. INT_MAX
    /\ orig \in INT_MIN .. INT_MAX
    /\ fn \in Predicates \cup Conversions \cup {"none"}
    /\ via \in Conversions \cup {"none"}
    /\ fn \in Predicates => ret \in {0, 1}

(***************************************************************************)
(* Properties.                                                             *)
(***************************************************************************)
Ascii == 0 .. 127

Upper == 65 .. 90

Lower == 97 .. 122

Digits == 48 .. 57

XDigits == Digits \cup (65 .. 70) \cup (97 .. 102)

\* C1 (as stated): iscntrl returns nonzero for every negative int c.
C1_NegativeIsControl == (fn = "iscntrl" /\ c < 0) => ret # 0

\* C1 (amended): iscntrl(c) is nonzero iff 0 <= c < 0x20 or c = 0x7f; for
\* every negative int c the cast gives a value of at least 2^31 and iscntrl
\* returns 0.
C1_IscntrlRange ==
    fn = "iscntrl" =>
        /\ ret # 0 <=> ((0 <= c /\ c < 32) \/ c = 127)
        /\ c < 0 => ret = 0

C1_Witness == fn = "iscntrl" /\ c < 0 /\ ret = 0

\* C2: for the sentinel c = -1 each of the 13 predicates returns 0.
C2_SentinelFalse == (c = -1 /\ fn \in Predicates) => ret = 0

C2_Witness == c = -1 /\ fn = "isxdigit" /\ ret = 0

\* C3: for every int c the unsigned-subtraction range checks agree with the
\* two-sided checks: isdigit iff 48..57, isupper iff 65..90, islower iff
\* 97..122, isprint iff 0x20..0x7e, isgraph iff 0x21..0x7e, isspace iff
\* c = 32 or 9..13.
C3_RangeChecks ==
    /\ fn = "isdigit" => (ret # 0 <=> (48 <= c /\ c <= 57))
    /\ fn = "isupper" => (ret # 0 <=> (65 <= c /\ c <= 90))
    /\ fn = "islower" => (ret # 0 <=> (97 <= c /\ c <= 122))
    /\ fn = "isprint" => (ret # 0 <=> (32 <= c /\ c <= 126))
    /\ fn = "isgraph" => (ret # 0 <=> (33 <= c /\ c <= 126))
    /\ fn = "isspace" => (ret # 0 <=> (c = 32 \/ (9 <= c /\ c <= 13)))

C3_Witness == fn = "islower" /\ c < 0 /\ ret = 0 /\ c + 2^30 \in Lower

\* C4: for every int c isalpha(c) is nonzero iff isupper(c) or islower(c)
\* is, that is iff c is in 'A'..'Z' or 'a'..'z'.
C4_AlphaIsUpperOrLower ==
    fn = "isalpha" =>
        /\ ret # 0 <=> (isupper(c) # 0 \/ islower(c) # 0)
        /\ ret # 0 <=> c \in Upper \cup Lower

C4_Witness == fn = "isalpha" /\ c \in Upper /\ ret # 0

\* C5: for every int c isxdigit(c) is nonzero iff c is one of the 22 values
\* '0'..'9', 'a'..'f', 'A'..'F'.
C5_XDigitExact ==
    /\ Cardinality(XDigits) = 22
    /\ fn = "isxdigit" => (ret # 0 <=> c \in XDigits)

C5_Witness == fn = "isxdigit" /\ c = 70 /\ ret # 0

\* C6: tolower adds 32 to an upper case letter, giving a lower case letter,
\* and is the identity elsewhere; toupper subtracts 32 from a lower case
\* letter, giving an upper case letter, and is the identity elsewhere.
C6_CaseConversion ==
    /\ fn = "tolower" =>
           IF isupper(c) # 0
           THEN ret = c + 32 /\ islower(ret) # 0
           ELSE ret = c
    /\ fn = "toupper" =>
           IF islower(c) # 0
           THEN ret = c - 32 /\ isupper(ret) # 0
           ELSE ret = c

C6_Witness == fn = "toupper" /\ c = 122 /\ ret = 90

\* C7: for every ASCII letter c, tolower(toupper(c)) = tolower(c) and
\* toupper(tolower(c)) = toupper(c).
C7_RoundTrip ==
    orig \in Upper \cup Lower =>
        /\ (via = "toupper" /\ fn = "tolower") => ret = tolower(orig)
        /\ (via = "tolower" /\ fn = "toupper") => ret = toupper(orig)

C7_Witness ==
    /\ orig \in Upper
    /\ via = "tolower"
    /\ c \in Lower
    /\ fn = "toupper"
    /\ ret = orig

\* C8: for every c in 0..255, isascii(c) is nonzero iff toascii(c) = c,
\* which is the case exactly when c is in 0..127.
C8_AsciiMask ==
    c \in 0 .. 255 =>
        /\ fn = "toascii" => (ret = c <=> isascii(c) # 0)
        /\ fn = "toascii" => (ret = c <=> c \in Ascii)
        /\ fn = "isascii" => (ret # 0 <=> toascii(c) = c)

C8_Witness == fn = "toascii" /\ c = 200 /\ ret = 72

\* C9: a value accepted by any predicate other than isascii is accepted by
\* isascii, that is lies in 0..127.
C9_AcceptedIsAscii ==
    (fn \in Predicates \ {"isascii"} /\ ret # 0) =>
        /\ isascii(c) # 0
        /\ c \in Ascii

C9_Witness == fn = "isprint" /\ ret # 0 /\ c = 126

\* C10: for c in 0..127 exactly one of iscntrl(c), c = ' ', isalnum(c),
\* ispunct(c) holds and for c outside 0..127 none does; isprint(c) iff
\* c = ' ' or isalnum(c) or ispunct(c); ispunct(c) = isgraph(c) && !isalnum(c)
\* and isalnum(c) = isalpha(c) || isdigit(c).
C10_Partition ==
    LET n == Truth(iscntrl(c) # 0) + Truth(c = 32)
             + Truth(isalnum(c) # 0) + Truth(ispunct(c) # 0)
    IN  /\ c \in Ascii => n = 1
        /\ c \notin Ascii => n = 0
        /\ isprint(c) # 0 <=> (c = 32 \/ isalnum(c) # 0 \/ ispunct(c) # 0)
        /\ fn = "ispunct" =>
               (ret # 0 <=> (isgraph(c) # 0 /\ isalnum(c) = 0))
        /\ fn = "isalnum" =>
               (ret # 0 <=> (isalpha(c) # 0 \/ isdigit(c) # 0))

C10_Witness == fn = "ispunct" /\ c \in Digits /\ ret = 0
====
